---- MODULE Spec2Model ----
(***************************************************************************)
(* Client-side job lifecycle of the CogniTriage dashboard:                 *)
(*   AppContext.tsx  - the shared store (patientData, analysisResult)      *)
(*   Dashboard.tsx   - submission handlers, canSubmit, the polling effect  *)
(* The backend is an external collaborator: it creates jobs, moves their   *)
(* status forward and answers status / result requests.                    *)
(***************************************************************************)
EXTENDS Integers, Sequences, FiniteSets, TLC

(* ---------- bounds of the model ---------- *)
\* jobs the service creates; poll() invocations and create-job requests in flight at once
MaxJobs == 2
MaxPolls == 2
MaxSubmits == 1
\* keys in one partial record passed to a store writer (StoreSpec)
MaxFields == 1
\* calls of fetchMatchedTrials in flight at once (TrialsSpec)
MaxTrialFetches == 2

(* ---------- values ---------- *)
\* Every value of an analysisResult field is a pair <<tag, n>>.
NullV == <<"null", 0>>
UndefinedV == <<"undefined", 0>>
EmptyList == <<"list", 0>>
ErrorBody == <<"detail", 0>>

JobV(j) == <<"job", j>>
StatusV(s) == <<s, 0>>
DocV(j) == <<"doc", j>>

JobStatusNames == {"queued", "running", "completed", "failed"}

\* statusResp.status : undefined when the body is not a JobStatus
StatusOf(v) == IF v[1] \in JobStatusNames THEN v[1] ELSE "undefined"

\* resultResp.result : the body {result: doc} of a successful response, absent in an error body
ResultOf(body) == IF body[1] = "doc" THEN body ELSE UndefinedV

\* result?.<k> : optional chaining, undefined on null / undefined
Field(doc, k) == IF doc[1] = "doc" THEN <<k, doc[2]>> ELSE UndefinedV

\* number | "" : <<"number", n>> or the empty string
Num(n) == <<"number", n>>
EmptyStr == <<"string", 0>>
IsNumber(v) == v[1] = "number"
\* the value of the sex <select>
SexV(x) == <<x, 0>>

AnalysisKeys == {"jobId", "status", "result", "triage", "note", "citations", "trials",
                 "treatment_recommendations"}
DerivedKeys == {"triage", "note", "citations", "trials", "treatment_recommendations"}
PatientKeys == {"age", "moca", "sex", "files"}

initialPatientData == [age |-> EmptyStr, moca |-> EmptyStr, sex |-> SexV("F"), files |-> <<>>]

initialAnalysisResult ==
  [jobId |-> NullV, status |-> NullV, result |-> NullV, triage |-> NullV, note |-> NullV,
   citations |-> EmptyList, trials |-> EmptyList, treatment_recommendations |-> NullV]

(* ---------- the store: partial merge ---------- *)
\* a writer that replaces the state by its argument: prev => data
SpreadReplacing(prev, data) ==
  [k \in (DOMAIN prev) \cup (DOMAIN data) |-> IF k \in DOMAIN data THEN data[k] ELSE UndefinedV]

\* prev => ({ ...prev, ...data })
Spread(prev, data) ==
  [k \in (DOMAIN prev) \cup (DOMAIN data) |-> IF k \in DOMAIN data THEN data[k] ELSE prev[k]]

(* ---------- Dashboard: submission guard ---------- *)
\* a guard with the upper MoCA limit exclusive
canSubmitExclusive(pd) ==
  LET hasFiles == Len(pd.files) > 0
      mocaValid == IF IsNumber(pd.moca) THEN pd.moca[2] >= 0 /\ pd.moca[2] < 30 ELSE TRUE
      ageValid == IF IsNumber(pd.age) THEN pd.age[2] > 0 ELSE TRUE
  IN hasFiles /\ mocaValid /\ ageValid

canSubmit(pd) ==
  LET hasFiles == Len(pd.files) > 0
      mocaValid == IF IsNumber(pd.moca) THEN pd.moca[2] >= 0 /\ pd.moca[2] <= 30 ELSE TRUE
      ageValid == IF IsNumber(pd.age) THEN pd.age[2] > 0 ELSE TRUE
  IN hasFiles /\ mocaValid /\ ageValid

VARIABLES
  patientData,      \* AppProvider state
  analysisResult,   \* AppProvider state
  mounted,          \* the Dashboard route is rendered
  pollRef,          \* pollRef.current of the mounted Dashboard (0 = null)
  intervals,        \* active window.setInterval timers: [h, job, own]
  polls,            \* poll() invocations suspended at an await: [id, job, pc, resp, own]
  submits,          \* create-job requests in flight, in order of issue
  backend,          \* job -> status held by the analysis service
  nextJob,          \* the next job identifier the service hands out
  resultFetched,    \* history: jobs for which GET /api/result was issued
  terminalSeen,     \* history: jobs for which a completed / failed response was processed
  trialsPage        \* the Trials page: its trials and loading state, its fetches in flight

vars == <<patientData, analysisResult, mounted, pollRef, intervals, polls, submits, backend,
          nextJob, resultFetched, terminalSeen, trialsPage>>

\* Trials: useState<Trial[]>([]), useState(false); no fetch in flight
initialTrialsPage == [trials |-> <<>>, loading |-> FALSE, fetches |-> 0]

Jobs == 1..MaxJobs

\* AppProvider's useState initial values, no job, no timer, nothing in flight
InitialSession ==
  /\ patientData = initialPatientData
  /\ analysisResult = initialAnalysisResult
  /\ pollRef = 0
  /\ intervals = {}
  /\ polls = {}
  /\ submits = <<>>
  /\ backend = [j \in Jobs |-> "none"]
  /\ nextJob = 1
  /\ resultFetched = {}
  /\ terminalSeen = {}
  /\ trialsPage = initialTrialsPage

\* the app opens on the Dashboard route
Init == InitialSession /\ mounted = TRUE

(* ---------- AppContext: the store's writers ---------- *)
setPatientData(data) == patientData' = Spread(patientData, data)

setAnalysisResult(data) == analysisResult' = Spread(analysisResult, data)

(* ---------- Dashboard: the polling effect ---------- *)
\* clearInterval(h)
clearInterval(ivs, h) == {i \in ivs : i.h # h}

\* a cleanup that drops the reference and leaves the timer running
CleanupLeaking(ivs, ref) == ivs

\* the effect's cleanup: if (pollRef.current) { clearInterval(pollRef.current); pollRef.current = null }
CleanupIntervals(ivs, ref) == IF ref # 0 THEN clearInterval(ivs, ref) ELSE ivs

Max(S) == CHOOSE x \in S : \A y \in S : y <= x

\* window.setInterval returns a handle no live timer or reference holds
FreshHandle == 1 + Max({i.h : i \in intervals} \cup {pollRef})

\* identifiers for the suspended poll() invocations
FreePollIds == (1..MaxPolls) \ {p.id : p \in polls}
FreshPollId == CHOOSE n \in FreePollIds : \A m \in FreePollIds : n <= m

\* a poll() invocation of the closure over jobId, suspended at its status fetch
NewPoll(jobId, own) ==
  [id |-> FreshPollId, job |-> jobId, pc |-> "status", resp |-> "pending", own |-> own]

\* room for one more poll() call
PollRoom == FreePollIds # {}

\* the effect body for the rendered jobId, after the previous run's cleanup left (ivs, ref)
RunEffect(jobId, ivs, ref) ==
  IF jobId = NullV
  THEN /\ intervals' = ivs
       /\ pollRef' = ref
       /\ UNCHANGED polls
  ELSE /\ polls' = polls \cup {NewPoll(jobId, TRUE)}
       /\ intervals' = ivs \cup {[h |-> FreshHandle, job |-> jobId, own |-> TRUE]}
       /\ pollRef' = FreshHandle

\* the re-render after a store write: useEffect(..., [jobId]) runs the previous cleanup
\* (registered only when that run had a jobId) and then the effect, when jobId changed
Rerender(newJobId) ==
  LET old == analysisResult.jobId
  IN IF mounted /\ newJobId # old
     THEN /\ newJobId # NullV => PollRoom
          /\ IF old # NullV
             THEN RunEffect(newJobId, CleanupIntervals(intervals, pollRef), 0)
             ELSE RunEffect(newJobId, intervals, pollRef)
     ELSE UNCHANGED <<intervals, pollRef, polls>>

\* entering the route without running the effect
MountIdle ==
  /\ ~mounted
  /\ mounted' = TRUE
  /\ pollRef' = 0
  /\ UNCHANGED <<patientData, analysisResult, intervals, polls, submits, backend, nextJob,
                 resultFetched, terminalSeen, trialsPage>>

\* the Dashboard route is entered: a new component instance, useRef(null), first effect run
Mount ==
  /\ ~mounted
  /\ mounted' = TRUE
  /\ analysisResult.jobId # NullV => PollRoom
  /\ RunEffect(analysisResult.jobId, intervals, 0)
  /\ UNCHANGED <<patientData, analysisResult, submits, backend, nextJob, resultFetched,
                 terminalSeen, trialsPage>>

\* leaving the route without running the effect's cleanup
UnmountLeaking ==
  /\ mounted
  /\ mounted' = FALSE
  /\ intervals' = {[i EXCEPT !.own = FALSE] : i \in intervals}
  /\ pollRef' = pollRef
  /\ polls' = {[p EXCEPT !.own = FALSE] : p \in polls}
  /\ UNCHANGED <<patientData, analysisResult, submits, backend, nextJob, resultFetched,
                 terminalSeen, trialsPage>>

\* the Dashboard route is left: the last effect run's cleanup, if it registered one.
\* Closures of the old instance keep its pollRef, which the cleanup left null.
Unmount ==
  /\ mounted
  /\ mounted' = FALSE
  /\ LET ivs == IF analysisResult.jobId # NullV
                THEN CleanupIntervals(intervals, pollRef) ELSE intervals
     IN intervals' = {[i EXCEPT !.own = FALSE] : i \in ivs}
  /\ pollRef' = IF analysisResult.jobId # NullV THEN 0 ELSE pollRef
  /\ polls' = {[p EXCEPT !.own = FALSE] : p \in polls}
  /\ UNCHANGED <<patientData, analysisResult, submits, backend, nextJob, resultFetched,
                 terminalSeen, trialsPage>>

\* a timer that skips the tick while a request of its job is outstanding
TickSerial(i) ==
  /\ i \in intervals
  /\ PollRoom
  /\ ~\E p \in polls : p.job = i.job
  /\ polls' = polls \cup {NewPoll(i.job, i.own)}
  /\ UNCHANGED <<patientData, analysisResult, mounted, pollRef, intervals, submits, backend,
                 nextJob, resultFetched, terminalSeen, trialsPage>>

\* window.setInterval(poll, 2000) fires: one more poll() of that timer's closure
Tick(i) ==
  /\ i \in intervals
  /\ PollRoom
  /\ polls' = polls \cup {NewPoll(i.job, i.own)}
  /\ UNCHANGED <<patientData, analysisResult, mounted, pollRef, intervals, submits, backend,
                 nextJob, resultFetched, terminalSeen, trialsPage>>

(* ---------- Dashboard: submission ---------- *)
\* setAnalysisResult({ jobId: null, status: null, result: null })
ClearedJob == [jobId |-> NullV, status |-> NullV, result |-> NullV]

\* a create-job request: the endpoint it is posted to and the fields of its body
Request(endpoint, body) == [endpoint |-> endpoint, body |-> body]

\* the demo endpoints are posted to without a body
NoBody == <<>>

\* typeof moca === "number" ? moca : 24 ; typeof age === "number" ? age : 70
DefaultMoca == 24
DefaultAge == 70

\* a payload whose defaults replace every falsy value: moca || 24, age || 70
SubmitPayloadFalsy(pd) ==
  LET mocaVal == IF IsNumber(pd.moca) /\ pd.moca[2] # 0 THEN pd.moca[2] ELSE DefaultMoca
      ageVal == IF IsNumber(pd.age) /\ pd.age[2] # 0 THEN pd.age[2] ELSE DefaultAge
  IN <<pd.files, mocaVal, ageVal, pd.sex>>

\* the FormData of startSubmit: files, moca = {total: Number(mocaVal)},
\* meta = {age: Number(ageVal), sex}
SubmitPayload(pd) ==
  LET mocaVal == IF IsNumber(pd.moca) THEN pd.moca[2] ELSE DefaultMoca
      ageVal == IF IsNumber(pd.age) THEN pd.age[2] ELSE DefaultAge
  IN <<pd.files, mocaVal, ageVal, pd.sex>>

\* the create-job request leaves; its await suspends the handler
IssueSubmit(request) == submits' = Append(submits, request)

\* room for one more create-job request in flight
SubmitRoom == Len(submits) < MaxSubmits

\* a handler without the canSubmit test
startSubmitUnguarded ==
  /\ mounted
  /\ setAnalysisResult(ClearedJob)
  /\ Rerender(NullV)
  /\ IssueSubmit(Request("submit", SubmitPayload(patientData)))
  /\ UNCHANGED <<patientData, mounted, backend, nextJob, resultFetched, terminalSeen, trialsPage>>

startSubmit ==
  /\ mounted
  /\ IF ~canSubmit(patientData)
     THEN UNCHANGED vars
     ELSE /\ setAnalysisResult(ClearedJob)
          /\ Rerender(NullV)
          /\ IssueSubmit(Request("submit", SubmitPayload(patientData)))
          /\ UNCHANGED <<patientData, mounted, backend, nextJob, resultFetched, terminalSeen,
                         trialsPage>>

\* a demo handler that goes through the form's guard and keeps the selected files
useDemoCaseGuarded ==
  /\ mounted
  /\ IF ~canSubmit(patientData)
     THEN UNCHANGED vars
     ELSE /\ setPatientData([moca |-> Num(24), age |-> Num(72), sex |-> SexV("M")])
          /\ setAnalysisResult(ClearedJob)
          /\ Rerender(NullV)
          /\ IssueSubmit(Request("demo-submit", NoBody))
          /\ UNCHANGED <<mounted, backend, nextJob, resultFetched, terminalSeen, trialsPage>>

useDemoCase ==
  /\ mounted
  /\ setPatientData([moca |-> Num(24), age |-> Num(72), sex |-> SexV("M"), files |-> <<>>])
  /\ setAnalysisResult(ClearedJob)
  /\ Rerender(NullV)
  /\ IssueSubmit(Request("demo-submit", NoBody))
  /\ UNCHANGED <<mounted, backend, nextJob, resultFetched, terminalSeen, trialsPage>>

useDemoPathology ==
  /\ mounted
  /\ setPatientData([moca |-> Num(19), age |-> Num(78), sex |-> SexV("F"), files |-> <<>>])
  /\ setAnalysisResult(ClearedJob)
  /\ Rerender(NullV)
  /\ IssueSubmit(Request("demo-pathology", NoBody))
  /\ UNCHANGED <<mounted, backend, nextJob, resultFetched, terminalSeen, trialsPage>>

RemoveAt(q, n) == SubSeq(q, 1, n - 1) \o SubSeq(q, n + 1, Len(q))

\* the create-job response { job_id } arrives: setAnalysisResult({ jobId: data.job_id })
SubmitOk(s) ==
  /\ s \in DOMAIN submits
  /\ nextJob <= MaxJobs
  /\ submits' = RemoveAt(submits, s)
  /\ backend' = [backend EXCEPT ![nextJob] = "queued"]
  /\ nextJob' = nextJob + 1
  /\ setAnalysisResult([jobId |-> JobV(nextJob)])
  /\ Rerender(JobV(nextJob))
  /\ UNCHANGED <<patientData, mounted, resultFetched, terminalSeen, trialsPage>>

\* network error or !response.ok: thrown, caught, logged
SubmitFailed(s) ==
  /\ s \in DOMAIN submits
  /\ submits' = RemoveAt(submits, s)
  /\ UNCHANGED <<patientData, analysisResult, mounted, pollRef, intervals, polls, backend,
                 nextJob, resultFetched, terminalSeen, trialsPage>>

(* ---------- the analysis service ---------- *)
\* a job's status only moves forward: queued -> running -> completed | failed
BackendAdvance(j) ==
  /\ j \in Jobs
  /\ \/ backend[j] = "queued" /\ backend' = [backend EXCEPT ![j] = "running"]
     \/ backend[j] = "running" /\ \E t \in {"completed", "failed"} :
                                    backend' = [backend EXCEPT ![j] = t]
  /\ UNCHANGED <<patientData, analysisResult, mounted, pollRef, intervals, polls, submits,
                 nextJob, resultFetched, terminalSeen, trialsPage>>

\* GET /api/status/{job_id} is answered with the job's status at that moment
ServeStatus(p) ==
  /\ p \in polls
  /\ p.pc = "status"
  /\ p.resp = "pending"
  /\ polls' = (polls \ {p}) \cup {[p EXCEPT !.resp = backend[p.job[2]]]}
  /\ UNCHANGED <<patientData, analysisResult, mounted, pollRef, intervals, submits, backend,
                 nextJob, resultFetched, terminalSeen, trialsPage>>

(* ---------- Dashboard: poll() resumes ---------- *)
Outcomes == {"ok", "httpError", "networkError"}

\* the parsed body of a response: fetch(...).then(r => r.json()) does not look at r.ok
StatusBody(p, outcome) == IF outcome = "ok" THEN StatusV(p.resp) ELSE ErrorBody
ResultBody(p, outcome) == IF outcome = "ok" THEN DocV(p.job[2]) ELSE ErrorBody

\* a poll() whose catch block stops the timer when the status fetch is rejected
StatusArrivesStopping(p, outcome) ==
  /\ p \in polls
  /\ p.pc = "status"
  /\ outcome = "networkError"
  /\ polls' = polls \ {p}
  /\ intervals' = CleanupIntervals(intervals, pollRef)
  /\ pollRef' = 0
  /\ UNCHANGED <<patientData, analysisResult, mounted, submits, backend, nextJob,
                 resultFetched, terminalSeen, trialsPage>>

\* a poll() that fetches the result on any terminal status
StatusArrivesAnyTerminal(p, outcome) ==
  /\ p \in polls
  /\ p.pc = "status"
  /\ outcome = "ok" => p.resp # "pending"
  /\ IF outcome = "networkError"
     THEN /\ polls' = polls \ {p}
          /\ UNCHANGED <<analysisResult, resultFetched, terminalSeen>>
     ELSE LET statusResp == StatusBody(p, outcome)
          IN /\ setAnalysisResult([status |-> statusResp])
             /\ IF StatusOf(statusResp) \in {"completed", "failed"}
                THEN /\ polls' = (polls \ {p}) \cup {[p EXCEPT !.pc = "result"]}
                     /\ resultFetched' = resultFetched \cup {p.job[2]}
                ELSE /\ polls' = polls \ {p}
                     /\ UNCHANGED resultFetched
             /\ terminalSeen' = IF StatusOf(statusResp) \in {"completed", "failed"}
                                THEN terminalSeen \cup {p.job[2]} ELSE terminalSeen
  /\ UNCHANGED <<patientData, mounted, pollRef, intervals, submits, backend, nextJob, trialsPage>>

\* the status fetch resolves: setAnalysisResult({ status: statusResp }), then the result fetch
\* when statusResp.status === 'completed'; a rejected fetch is caught and logged
StatusArrives(p, outcome) ==
  /\ p \in polls
  /\ p.pc = "status"
  /\ outcome = "ok" => p.resp # "pending"
  /\ IF outcome = "networkError"
     THEN /\ polls' = polls \ {p}
          /\ UNCHANGED <<analysisResult, resultFetched, terminalSeen>>
     ELSE LET statusResp == StatusBody(p, outcome)
          IN /\ setAnalysisResult([status |-> statusResp])
             /\ IF StatusOf(statusResp) = "completed"
                THEN /\ polls' = (polls \ {p}) \cup {[p EXCEPT !.pc = "result"]}
                     /\ resultFetched' = resultFetched \cup {p.job[2]}
                ELSE /\ polls' = polls \ {p}
                     /\ UNCHANGED resultFetched
             /\ terminalSeen' = IF StatusOf(statusResp) \in {"completed", "failed"}
                                THEN terminalSeen \cup {p.job[2]} ELSE terminalSeen
  /\ UNCHANGED <<patientData, mounted, pollRef, intervals, submits, backend, nextJob, trialsPage>>

\* an aggregation write that leaves trials out
AggregateWithoutTrials(res) ==
  [result |-> res,
   triage |-> Field(res, "triage"),
   note |-> Field(res, "note"),
   citations |-> Field(res, "citations"),
   treatment_recommendations |-> Field(res, "treatment_recommendations")]

\* the fields of the aggregation write
AggregateFields(res) ==
  [result |-> res,
   triage |-> Field(res, "triage"),
   note |-> Field(res, "note"),
   citations |-> Field(res, "citations"),
   trials |-> Field(res, "trials"),
   treatment_recommendations |-> Field(res, "treatment_recommendations")]

\* the result fetch resolves: one setAnalysisResult with the document and its sub-fields,
\* then the timer pollRef refers to is cleared
ResultArrives(p, outcome) ==
  /\ p \in polls
  /\ p.pc = "result"
  /\ polls' = polls \ {p}
  /\ IF outcome = "networkError"
     THEN UNCHANGED <<analysisResult, pollRef, intervals>>
     ELSE /\ setAnalysisResult(AggregateFields(ResultOf(ResultBody(p, outcome))))
          /\ LET ref == IF p.own THEN pollRef ELSE 0
             IN /\ intervals' = CleanupIntervals(intervals, ref)
                /\ pollRef' = IF p.own THEN 0 ELSE pollRef
  /\ UNCHANGED <<patientData, mounted, submits, backend, nextJob, resultFetched, terminalSeen,
                 trialsPage>>

(* ---------- AppContext: clearAll ---------- *)
\* a reset of the analysis store only
clearAnalysisOnly ==
  /\ analysisResult' = initialAnalysisResult
  /\ Rerender(NullV)
  /\ UNCHANGED <<patientData, mounted, submits, backend, nextJob, resultFetched, terminalSeen,
                 trialsPage>>

clearAll ==
  /\ patientData' = initialPatientData
  /\ analysisResult' = initialAnalysisResult
  /\ Rerender(NullV)
  /\ UNCHANGED <<mounted, submits, backend, nextJob, resultFetched, terminalSeen, trialsPage>>

(* ---------- Dashboard: the intake form ---------- *)
PipelineVars == <<analysisResult, mounted, pollRef, intervals, polls, submits, backend,
                  nextJob, resultFetched, terminalSeen, trialsPage>>

\* a handler that adds the dropped files to the list
onSelectFilesAppending(fileList) ==
  /\ mounted
  /\ setPatientData([files |-> patientData.files \o fileList])
  /\ UNCHANGED PipelineVars

\* onDrop / onSelectFiles: only the first file of a non-empty list is kept
onSelectFiles(fileList) ==
  /\ mounted
  /\ IF Len(fileList) = 0
     THEN UNCHANGED patientData
     ELSE setPatientData([files |-> <<fileList[1]>>])
  /\ UNCHANGED PipelineVars

\* files.filter((_, i) => i !== idx), idx counted from 0
removeFile(idx) ==
  /\ mounted
  /\ LET keep == {i \in 1..Len(patientData.files) : i - 1 # idx}
         f[i \in 0..Len(patientData.files)] ==
           IF i = 0 THEN <<>>
           ELSE IF i \in keep THEN Append(f[i - 1], patientData.files[i]) ELSE f[i - 1]
     IN setPatientData([files |-> f[Len(patientData.files)]])
  /\ UNCHANGED PipelineVars

\* the number inputs: e.target.value ? Number(e.target.value) : ""
setMoca(v) == mounted /\ setPatientData([moca |-> v]) /\ UNCHANGED PipelineVars
setAge(v) == mounted /\ setPatientData([age |-> v]) /\ UNCHANGED PipelineVars
setSex(v) == mounted /\ setPatientData([sex |-> v]) /\ UNCHANGED PipelineVars

(* ---------- the job pipeline ---------- *)
Next ==
  \/ Mount
  \/ Unmount
  \/ \E i \in intervals : Tick(i)
  \/ SubmitRoom /\ startSubmit
  \/ SubmitRoom /\ useDemoCase
  \/ SubmitRoom /\ useDemoPathology
  \/ \E s \in DOMAIN submits : SubmitOk(s)
  \/ \E s \in DOMAIN submits : SubmitFailed(s)
  \/ \E j \in Jobs : BackendAdvance(j)
  \/ \E p \in polls : ServeStatus(p)
  \/ \E p \in polls, o \in Outcomes : StatusArrives(p, o)
  \/ \E p \in polls, o \in Outcomes : ResultArrives(p, o)
  \/ clearAll
  \/ \E fl \in {<<>>, <<1>>} : onSelectFiles(fl)

Spec == Init /\ [][Next]_vars

(* ---------- the intake form on its own ---------- *)
FileLists == {<<>>, <<1>>, <<2>>, <<1, 2>>, <<2, 1>>}
MocaInputs == {EmptyStr, Num(-1), Num(0), Num(24), Num(30), Num(31), Num(35)}
AgeInputs == {EmptyStr, Num(-1), Num(0), Num(1), Num(72)}
SexInputs == {SexV("F"), SexV("M"), SexV("U")}

FormNext ==
  \/ \E fl \in FileLists : onSelectFiles(fl)
  \/ \E idx \in 0..1 : removeFile(idx)
  \/ \E v \in MocaInputs : setMoca(v)
  \/ \E v \in AgeInputs : setAge(v)
  \/ \E v \in SexInputs : setSex(v)

FormSpec == Init /\ [][FormNext]_vars

(* ---------- the intake form with its Analyze button ---------- *)
SubmitNext ==
  \/ FormNext
  \/ SubmitRoom /\ startSubmit
  \/ SubmitRoom /\ useDemoCase
  \/ SubmitRoom /\ useDemoPathology
  \/ clearAll
  \/ \E s \in DOMAIN submits : SubmitOk(s)
  \/ \E s \in DOMAIN submits : SubmitFailed(s)

SubmitSpec == Init /\ [][SubmitNext]_vars

(* ---------- the store on its own: a page other than the Dashboard writes any fields ---------- *)
\* the partial records a consumer passes: at most MaxFields keys, each to one of the values
\* that key can hold
AnalysisValues ==
  [k \in AnalysisKeys |->
     IF k = "jobId" THEN {NullV, JobV(1)}
     ELSE IF k = "status" THEN {NullV, StatusV("running")}
     ELSE IF k = "result" THEN {NullV, DocV(1)}
     ELSE {Field(DocV(1), k)}]

PatientValues ==
  [k \in PatientKeys |->
     IF k = "age" THEN {Num(72)}
     ELSE IF k = "moca" THEN {Num(24)}
     ELSE IF k = "sex" THEN {SexV("M")}
     ELSE {<<>>, <<1>>}]

Partials(values) ==
  UNION {{f \in [K -> UNION {values[k] : k \in K}] : \A k \in K : f[k] \in values[k]} :
         K \in {K \in SUBSET DOMAIN values : Cardinality(K) <= MaxFields}}

AnalysisPartials == Partials(AnalysisValues)
PatientPartials == Partials(PatientValues)

\* a consumer calls setAnalysisResult(fields); a mounted Dashboard would re-render
WriteAnalysis(fields) ==
  /\ setAnalysisResult(fields)
  /\ Rerender(analysisResult'.jobId)
  /\ UNCHANGED <<patientData, mounted, submits, backend, nextJob, resultFetched, terminalSeen,
                 trialsPage>>

WritePatient(data) ==
  /\ setPatientData(data)
  /\ UNCHANGED PipelineVars

StoreNext ==
  \/ \E fields \in AnalysisPartials : WriteAnalysis(fields)
  \/ \E data \in PatientPartials : WritePatient(data)
  \/ clearAll

\* the user has opened another page (Results, Trials, ...): the Dashboard is not rendered
StoreInit == InitialSession /\ mounted = FALSE

StoreSpec == StoreInit /\ [][StoreNext]_vars

(* ---------- the pipeline when nothing fails ---------- *)
\* The Dashboard stays rendered, every request gets a successful response and no job fails.
\* a job moves forward on the backend, never to failed
BackendProgress(j) == BackendAdvance(j) /\ backend'[j] # "failed"

LiveNext ==
  \/ SubmitRoom /\ useDemoCase
  \/ \E s \in DOMAIN submits : SubmitOk(s)
  \/ \E j \in Jobs : BackendProgress(j)
  \/ \E i \in intervals : Tick(i)
  \/ \E p \in polls : ServeStatus(p)
  \/ \E p \in polls : StatusArrives(p, "ok")
  \/ \E p \in polls : ResultArrives(p, "ok")

\* every request in flight is answered and its response processed, a running job reaches
\* completed, and setInterval keeps firing while its timer is active
LiveFairness ==
  /\ \A j \in Jobs : WF_vars(BackendProgress(j))
  /\ \A n \in 1..MaxPolls : WF_vars(\E p \in polls : p.id = n /\ ServeStatus(p))
  /\ \A n \in 1..MaxPolls : WF_vars(\E p \in polls : p.id = n /\ StatusArrives(p, "ok"))
  /\ \A n \in 1..MaxPolls : WF_vars(\E p \in polls : p.id = n /\ ResultArrives(p, "ok"))
  /\ WF_vars(\E i \in intervals : Tick(i))

LiveSpec == Init /\ [][LiveNext]_vars /\ LiveFairness

(* ---------- two overlapping submissions ---------- *)
\* The user presses "Demo Case" and, before its create-job response has arrived,
\* "Demo Pathology": the request to /api/demo-submit is the first started, the request
\* to /api/demo-pathology the most recently started. The responses arrive in any order.
FirstSubmission == submits = <<>> /\ nextJob = 1
OverlappingSubmission ==
  /\ Len(submits) = 1
  /\ submits[1].endpoint = "demo-submit"
  /\ nextJob = 1

OverlapNext ==
  \/ FirstSubmission /\ useDemoCase
  \/ OverlappingSubmission /\ useDemoPathology
  \/ \E s \in DOMAIN submits : SubmitOk(s)
  \/ \E s \in DOMAIN submits : SubmitFailed(s)
  \/ \E j \in Jobs : BackendAdvance(j)
  \/ \E i \in intervals : Tick(i)
  \/ \E p \in polls : ServeStatus(p)
  \/ \E p \in polls, o \in Outcomes : StatusArrives(p, o)
  \/ \E p \in polls, o \in Outcomes : ResultArrives(p, o)

OverlapSpec == Init /\ [][OverlapNext]_vars

(* ---------- the Trials page ---------- *)
\* getDemoTrials(): the nct_id of each of its entries
DemoTrials == <<"NCT05123456", "NCT05234567", "NCT05345678">>

\* JavaScript truthiness of a store value: null, undefined, "" and 0 are falsy
Truthy(v) == v[1] \notin {"null", "undefined", "string"} /\ ~(v[1] = "number" /\ v[2] = 0)

\* the effect on [result, patientData]: if (age && moca) fetch else if (result) fetch
TrialsEffectFetches ==
  (Truthy(patientData.age) /\ Truthy(patientData.moca)) \/ Truthy(analysisResult.result)

\* the parsed bodies of an OK response: {trials: [...]} or an object without trials
TrialLists == {<<>>, <<"NCT1">>, <<"NCT1", "NCT2">>}
TrialBodies ==
  {[has |-> FALSE, trials |-> <<>>]} \cup {[has |-> TRUE, trials |-> l] : l \in TrialLists}

\* data.trials || []
TrialsOrEmpty(data) == IF data.has THEN data.trials ELSE <<>>

\* ok: response.ok and its body parsed; notOk: a non-success HTTP status;
\* throws: fetch or response.json() rejected
TrialOutcomes == {"ok", "notOk", "throws"}

\* fetchMatchedTrials is called by the effect of the rendered Trials page and suspends at
\* its fetch: setLoading(true)
fetchMatchedTrials ==
  /\ ~mounted
  /\ TrialsEffectFetches
  /\ trialsPage.fetches < MaxTrialFetches
  /\ trialsPage' = [trialsPage EXCEPT !.loading = TRUE, !.fetches = @ + 1]
  /\ UNCHANGED <<patientData, analysisResult, mounted, pollRef, intervals, polls, submits,
                 backend, nextJob, resultFetched, terminalSeen>>

\* a call whose loading flag is reset only on the success path
fetchMatchedTrialsResumesNoFinally(outcome, data) ==
  /\ trialsPage.fetches > 0
  /\ trialsPage' = [trials |-> IF outcome = "ok" THEN TrialsOrEmpty(data) ELSE DemoTrials,
                    loading |-> IF outcome = "ok" THEN FALSE ELSE trialsPage.loading,
                    fetches |-> trialsPage.fetches - 1]
  /\ UNCHANGED <<patientData, analysisResult, mounted, pollRef, intervals, polls, submits,
                 backend, nextJob, resultFetched, terminalSeen>>

\* the fetch of one call resolves or rejects: setTrials(data.trials || []) on an OK response,
\* setTrials(getDemoTrials()) otherwise; finally setLoading(false)
fetchMatchedTrialsResumes(outcome, data) ==
  /\ trialsPage.fetches > 0
  /\ trialsPage' = [trials |-> IF outcome = "ok" THEN TrialsOrEmpty(data) ELSE DemoTrials,
                    loading |-> FALSE,
                    fetches |-> trialsPage.fetches - 1]
  /\ UNCHANGED <<patientData, analysisResult, mounted, pollRef, intervals, polls, submits,
                 backend, nextJob, resultFetched, terminalSeen>>

\* the user runs a demo case on the Dashboard and opens the Trials page
TrialsNext ==
  \/ SubmitRoom /\ useDemoCase
  \/ SubmitRoom /\ useDemoPathology
  \/ \E s \in DOMAIN submits : SubmitOk(s)
  \/ \E s \in DOMAIN submits : SubmitFailed(s)
  \/ Unmount
  \/ fetchMatchedTrials
  \/ \E o \in TrialOutcomes, data \in TrialBodies : fetchMatchedTrialsResumes(o, data)

TrialsSpec == Init /\ [][TrialsNext]_vars

(* ====================== properties ====================== *)

\* poll() invocation p resumes in this step (its status or its result fetch resolves)
Resumes(p) == p \in polls /\ ~\E q \in polls' : q.id = p.id /\ q.pc = p.pc

\* a poll() invocation is suspended at a fetch in polls' that was not there in polls
IssuedStatus(p) ==
  /\ p \in polls' /\ p.pc = "status" /\ p.resp = "pending"
  /\ ~\E q \in polls : q.id = p.id /\ q.pc = "status" /\ q.resp = "pending"
IssuedResult(p) ==
  /\ p \in polls' /\ p.pc = "result"
  /\ ~\E q \in polls : q.id = p.id /\ q.pc = "result"

Rank(v) == IF StatusOf(v) = "queued" THEN 0 ELSE IF StatusOf(v) = "running" THEN 1 ELSE 2

\* C1 - stale-job isolation: a response (status or result document) of a poll whose job is
\* no longer the store's jobId changes no field of the analysis store.
StaleJobIsolation ==
  [][\A p \in polls : (Resumes(p) /\ p.job # analysisResult.jobId)
                        => analysisResult' = analysisResult]_vars

\* C2 - single aggregation: the result document of a job is requested at most once; no
\* result fetch is issued for a job whose result was already requested.
SingleAggregation ==
  [][\A p \in polls' : IssuedResult(p) => p.job[2] \notin resultFetched]_vars

\* C3 - poll monotonicity: while jobId is unchanged, a status response written over a
\* non-null status never ranks lower in queued < running < completed/failed, and a
\* terminal status is never replaced.
PollMonotonicity ==
  [][(/\ analysisResult'.jobId = analysisResult.jobId
      /\ analysisResult.status # NullV
      /\ StatusOf(analysisResult.status) # "undefined"
      /\ StatusOf(analysisResult'.status) # "undefined"
      /\ analysisResult'.status # analysisResult.status)
     => /\ Rank(analysisResult'.status) >= Rank(analysisResult.status)
        /\ Rank(analysisResult.status) < 2]_vars

\* C4 - timer cleanup: once a completed or failed status response was observed for a job,
\* no further status request is issued for that job.
TimerCleanup ==
  [][\A p \in polls' : IssuedStatus(p) => p.job[2] \notin terminalSeen]_vars

\* C5 - store reset on resubmit: a submission (startSubmit or a demo submit issuing its
\* create-job request) leaves result and the five derived fields at their initial values,
\* so the new jobId is never written next to the previous job's fields.
StoreResetOnResubmit ==
  [][Len(submits') > Len(submits)
     => \A k \in DerivedKeys \cup {"result"} :
          analysisResult'[k] = initialAnalysisResult[k]]_vars

\* C6 - the derived fields are all at their initial values, or all taken from the store's
\* current result; they are never set while result is null.
DerivedFromResult ==
  \/ \A k \in DerivedKeys : analysisResult[k] = initialAnalysisResult[k]
  \/ /\ analysisResult.result # NullV
     /\ \A k \in DerivedKeys : analysisResult[k] = Field(analysisResult.result, k)

\* C7 - at most one polling interval timer is active.
AtMostOneTimer == Cardinality(intervals) <= 1

\* a timer runs for the second job: the effect ran again after the first job's timer
AtMostOneTimerWitness ==
  /\ \E i \in intervals : i.job = JobV(2)
  /\ backend[1] \notin {"none", "completed", "failed"}

\* C8 - canSubmit is true iff files is non-empty and (moca is not a number or 0 <= moca <= 30)
\* and (age is not a number or age > 0).
CanSubmitIff ==
  canSubmit(patientData) <=>
    /\ patientData.files # <<>>
    /\ (~IsNumber(patientData.moca) \/ (0 <= patientData.moca[2] /\ patientData.moca[2] <= 30))
    /\ (~IsNumber(patientData.age) \/ patientData.age[2] > 0)

\* one file with moca = 30 and age = 72: the guard is on its upper MoCA limit, and passes
CanSubmitWitness ==
  /\ patientData.files = <<1>>
  /\ patientData.moca = Num(30)
  /\ patientData.age = Num(72)
  /\ canSubmit(patientData)

\* C9 - partial merge: a setAnalysisResult(fields) / setPatientData(fields) step sets exactly
\* the keys of fields and leaves every other key of that store unchanged.
PartialMerge ==
  [][/\ patientData' = patientData =>
          \A f \in AnalysisPartials :
             WriteAnalysis(f) => \A k \in AnalysisKeys :
                analysisResult'[k] = IF k \in DOMAIN f THEN f[k] ELSE analysisResult[k]
     /\ analysisResult' = analysisResult =>
          \A f \in PatientPartials :
             WritePatient(f) => \A k \in PatientKeys :
                patientData'[k] = IF k \in DOMAIN f THEN f[k] ELSE patientData[k]]_vars

\* the store holds note and trials, and triage was then merged in on its own
PartialMergeWitness ==
  /\ analysisResult.note = Field(DocV(1), "note")
  /\ analysisResult.trials = Field(DocV(1), "trials")
  /\ analysisResult.triage = Field(DocV(1), "triage")
  /\ analysisResult.result = NullV
  /\ patientData.moca = Num(24)

\* C10 - the aggregation write is atomic: whenever result is non-null, each derived field
\* equals the corresponding field of that result.
AggregationAtomic ==
  analysisResult.result # NullV =>
    \A k \in DerivedKeys : analysisResult[k] = Field(analysisResult.result, k)

\* a result document is in the store
AggregationAtomicWitness ==
  /\ analysisResult.result = DocV(1)
  /\ analysisResult.trials = Field(DocV(1), "trials")

\* C11 - submission failure: when the create-job request of startSubmit fails, that step
\* writes no job identifier and issues no other create-job request, and it leaves the store
\* in its cleared state: jobId, status and result are all null.
SubmitFailureKeepsCleared ==
  [][\A s \in DOMAIN submits :
       (submits[s].endpoint = "submit" /\ SubmitFailed(s))
       => /\ analysisResult'.jobId = NullV
          /\ analysisResult'.status = NullV
          /\ analysisResult'.result = NullV
          /\ Len(submits') < Len(submits)]_vars

\* C12 - polling entry: in every step that changes the store's jobId to a non-null value,
\* exactly one status request for that jobId is issued and an interval timer for it is
\* started.
PollingEntry ==
  [][(analysisResult'.jobId # analysisResult.jobId /\ analysisResult'.jobId # NullV)
     => /\ Cardinality({p \in polls' : IssuedStatus(p) /\ p.job = analysisResult'.jobId}) = 1
        /\ \E i \in intervals' : i.job = analysisResult'.jobId /\ i.h = pollRef']_vars

\* C13 - a failed status stops the timer: after a status response `failed` for the store's
\* current job was processed, no interval timer for that job is active.
FailedStopsTimer ==
  [][\A p \in polls :
       (/\ Resumes(p)
        /\ p.pc = "status"
        /\ p.resp = "failed"
        /\ p.job = analysisResult.jobId
        /\ analysisResult'.status = StatusV("failed"))
       => ~\E i \in intervals' : i.job = p.job]_vars

\* C14 - no orphaned timers: every active interval is the one pollRef of the rendered
\* Dashboard refers to, and it polls the store's current jobId; so after a jobId change,
\* a completion or an unmount no interval of the previous effect run is left to fire.
NoOrphanedTimers ==
  \A i \in intervals :
    /\ mounted
    /\ i.own
    /\ i.h = pollRef
    /\ i.job = analysisResult.jobId

\* the Dashboard was left while its timer was polling a running job: a request of that
\* instance is still in flight, and no timer is
NoOrphanedTimersWitness ==
  /\ ~mounted
  /\ intervals = {}
  /\ \E p \in polls : /\ ~p.own
                      /\ p.job = analysisResult.jobId
                      /\ backend[p.job[2]] = "running"

\* C15 - clearAll leaves patientData = {age: "", moca: "", sex: "F", files: []} and
\* analysisResult with jobId, status, result, triage, note, treatment_recommendations null
\* and citations, trials empty; called when the stores already hold these values it
\* changes nothing, so calling it twice gives the state of calling it once.
ClearAllResets ==
  [][clearAll
     => /\ patientData' =
             [age |-> EmptyStr, moca |-> EmptyStr, sex |-> SexV("F"), files |-> <<>>]
        /\ analysisResult' =
             [jobId |-> NullV, status |-> NullV, result |-> NullV, triage |-> NullV,
              note |-> NullV, treatment_recommendations |-> NullV,
              citations |-> EmptyList, trials |-> EmptyList]
        /\ (patientData = patientData' /\ analysisResult = analysisResult')
             => UNCHANGED vars]_vars

\* clearAll was called after a job had been submitted: a submission needs a file or a demo
\* case in patientData, and only clearAll empties patientData again
ClearAllResetsWitness ==
  /\ nextJob > 1
  /\ terminalSeen # {}
  /\ patientData = initialPatientData
  /\ analysisResult = initialAnalysisResult
  /\ intervals = {}

\* C16 - liveness of the pipeline: when every request succeeds, no job fails and the
\* Dashboard stays rendered, a job that is the store's jobId leads to a state where the
\* store's result is that job's document and no timer is active, unless a new submission
\* takes the jobId away first.
PipelineLiveness ==
  \A j \in Jobs :
    (analysisResult.jobId = JobV(j))
      ~> (analysisResult.jobId # JobV(j)
          \/ (analysisResult.result = DocV(j) /\ intervals = {}))

\* C17 - a status request that fails with a network error changes no field of the
\* analysis store and leaves the timer of its job running and referenced by pollRef, with
\* room for the next tick's status request.
NetworkErrorTolerated ==
  [][\A p \in polls :
       StatusArrives(p, "networkError")
       => /\ analysisResult' = analysisResult
          /\ \A i \in intervals : i.job = p.job => (i \in intervals' /\ PollRoom')
          /\ pollRef' = pollRef]_vars

\* the first status request of job 1 was rejected: nothing is in flight, no status was
\* written, and the timer is running
NetworkErrorToleratedWitness ==
  /\ analysisResult.jobId = JobV(1)
  /\ analysisResult.status = NullV
  /\ polls = {}
  /\ \E i \in intervals : i.job = JobV(1) /\ i.h = pollRef

\* C18 - the result document of a job is requested only by a poll() whose own status
\* response for that job was `completed`; a job the backend reports as queued, running or
\* failed never has its result requested.
ResultOnlyAfterCompleted ==
  /\ \A j \in resultFetched : backend[j] = "completed" /\ j \in terminalSeen
  /\ \A p \in polls : p.pc = "result" => (p.resp = "completed" /\ p.job[2] \in resultFetched)

\* the result of the completed job 1 was requested; job 2 was observed as failed and its
\* result was not
ResultOnlyAfterCompletedWitness ==
  /\ 1 \in resultFetched
  /\ backend[2] = "failed"
  /\ 2 \in terminalSeen
  /\ 2 \notin resultFetched

\* C19 - when canSubmit is false, startSubmit is a no-op: the step changes no variable (no
\* store field, no request in flight), and a create-job request of startSubmit is only
\* ever issued from a state where canSubmit holds.
StartSubmitGuarded ==
  [][/\ (~canSubmit(patientData) /\ startSubmit) => UNCHANGED vars
     /\ (Len(submits') > Len(submits) /\ submits'[Len(submits')].endpoint = "submit")
          => canSubmit(patientData)]_vars

\* the Dashboard shows the result of job 1 and the form cannot be submitted (no file)
StartSubmitGuardedWitness ==
  /\ mounted
  /\ ~canSubmit(patientData)
  /\ analysisResult.jobId = JobV(1)
  /\ analysisResult.status = StatusV("completed")
  /\ analysisResult.result = DocV(1)
  /\ submits = <<>>

\* C20 - a status or result response with a non-success HTTP status is handled as a failure:
\* processing it changes no field of the analysis store.
HttpErrorNotWritten ==
  [][\A p \in polls :
       (StatusArrives(p, "httpError") \/ ResultArrives(p, "httpError"))
       => analysisResult' = analysisResult]_vars

\* C21 - a failed result fetch (rejected, or answered with a non-success HTTP status)
\* leaves result and the five derived fields unchanged, so a null result stays null, and
\* leaves status as the status response wrote it.
FailedResultFetchLeavesStore ==
  [][\A p \in polls :
       (ResultArrives(p, "networkError") \/ ResultArrives(p, "httpError"))
       => /\ \A k \in DerivedKeys \cup {"result"} : analysisResult'[k] = analysisResult[k]
          /\ analysisResult'.status = analysisResult.status]_vars

\* a create-job request of one of the demo endpoints
IsDemo(endpoint) == endpoint \in {"demo-submit", "demo-pathology"}

\* C22 - the demo submissions: useDemoCase / useDemoPathology can issue their create-job
\* request whatever canSubmit is; the step sets patientData to the fixed demo values and
\* jobId, status, result to null; a successful response writes the returned job id and,
\* like startSubmit's, starts polling in the rendered Dashboard; a failed one writes no
\* job id.
DemoSubmissions ==
  /\ [](mounted
          => /\ ENABLED (useDemoCase /\ submits' = Append(submits, Request("demo-submit", NoBody)))
             /\ ENABLED (useDemoPathology
                         /\ submits' = Append(submits, Request("demo-pathology", NoBody))))
  /\ [][/\ useDemoCase
             => /\ patientData' = [moca |-> Num(24), age |-> Num(72), sex |-> SexV("M"),
                                   files |-> <<>>]
                /\ \A k \in {"jobId", "status", "result"} : analysisResult'[k] = NullV
                /\ submits' = Append(submits, Request("demo-submit", NoBody))
        /\ useDemoPathology
             => /\ patientData' = [moca |-> Num(19), age |-> Num(78), sex |-> SexV("F"),
                                   files |-> <<>>]
                /\ \A k \in {"jobId", "status", "result"} : analysisResult'[k] = NullV
                /\ submits' = Append(submits, Request("demo-pathology", NoBody))
        /\ \A s \in DOMAIN submits :
             (IsDemo(submits[s].endpoint) /\ SubmitOk(s))
             => /\ analysisResult'.jobId = JobV(nextJob)
                /\ mounted => /\ \E p \in polls' : IssuedStatus(p) /\ p.job = JobV(nextJob)
                              /\ \E i \in intervals' : i.job = JobV(nextJob) /\ i.h = pollRef'
        /\ \A s \in DOMAIN submits :
             (IsDemo(submits[s].endpoint) /\ SubmitFailed(s))
             => analysisResult'.jobId = analysisResult.jobId]_vars

\* the pathology demo created job 1 from an empty form, and its result was aggregated
DemoSubmissionsWitness ==
  /\ nextJob = 2
  /\ patientData = [moca |-> Num(19), age |-> Num(78), sex |-> SexV("F"), files |-> <<>>]
  /\ ~canSubmit(patientData)
  /\ analysisResult.jobId = JobV(1)
  /\ analysisResult.result = DocV(1)

\* C23 - an accepted startSubmit call issues exactly one create-job request, to /api/submit;
\* its moca.total is the entered MoCA score when that is a number (0 included) and 24 when
\* it is unset, and its meta.age is the entered age when that is a number and 70 when it is
\* unset.
PayloadDefaults ==
  [][(canSubmit(patientData) /\ startSubmit)
     => /\ Len(submits') = Len(submits) + 1
        /\ SubSeq(submits', 1, Len(submits)) = submits
        /\ LET request == submits'[Len(submits')]
           IN /\ request.endpoint = "submit"
              /\ request.body[2] = IF patientData.moca = EmptyStr THEN 24
                                   ELSE patientData.moca[2]
              /\ request.body[3] = IF patientData.age = EmptyStr THEN 70
                                   ELSE patientData.age[2]]_vars

\* a request is in flight that was submitted with MoCA 0 entered and the age left unset
PayloadDefaultsWitness ==
  /\ submits # <<>>
  /\ submits[1].endpoint = "submit"
  /\ submits[1].body[2] = 0
  /\ submits[1].body[3] = 70
  /\ patientData.moca = Num(0)
  /\ patientData.age = EmptyStr

\* C24 - patientData.files holds at most one file in every reachable state; a drop or a
\* selection of one or more files leaves exactly the first of them, replacing the file
\* held before.
FilesAtMostOne ==
  /\ [](Len(patientData.files) <= 1)
  /\ [][\A fl \in FileLists :
          (fl # <<>> /\ onSelectFiles(fl)) => patientData'.files = <<fl[1]>>]_vars

\* after a job was submitted, a drop or selection whose first file is file 2 left exactly
\* that file in the list
FilesAtMostOneWitness ==
  /\ patientData.files = <<2>>
  /\ nextJob > 1

\* C25 - outstanding requests do not block the timer: an active interval can always fire
\* (up to the model's bound on poll() calls in flight), and each firing adds one status
\* request for the interval's job to those still outstanding.
TickNotBlocked ==
  /\ [](\A i \in intervals : PollRoom => ENABLED Tick(i))
  /\ [][\A i \in intervals :
          Tick(i) => /\ polls \subseteq polls'
                     /\ \E p \in polls' \ polls :
                          p.job = i.job /\ p.pc = "status" /\ p.resp = "pending"]_vars

\* two status requests for the active job are in flight, neither answered yet
TickNotBlockedWitness ==
  \E i \in intervals :
    /\ i.job = analysisResult.jobId
    /\ Cardinality({p \in polls : p.job = i.job /\ p.pc = "status" /\ p.resp = "pending"}) = 2

\* C26 - a result response of a superseded job (its jobId is not the store's jobId) never
\* clears the interval of the store's current job.
StaleCompletionKeepsTimer ==
  [][\A p \in polls :
       (Resumes(p) /\ p.pc = "result" /\ p.job # analysisResult.jobId)
       => \A i \in intervals : i.job = analysisResult.jobId => i \in intervals']_vars

\* C27 - overlapping submissions, the last started wins: once the response of the most
\* recently started submission has written its job id (jobId is non-null), the response
\* of the submission started before it does not replace that job id.
LastStartedWins ==
  [][\A s \in DOMAIN submits :
       (/\ submits[s].endpoint = "demo-submit"
        /\ analysisResult.jobId # NullV
        /\ SubmitOk(s))
       => analysisResult'.jobId = analysisResult.jobId]_vars

\* C28 - whenever the store's status is a `completed` status, the store's result is
\* non-null.
CompletedHasResult ==
  StatusOf(analysisResult.status) = "completed" => analysisResult.result # NullV

\* C29 - navigation: unmounting the Dashboard leaves no interval, so no timer-driven status
\* request is issued while it is not rendered; mounting it again with a non-null jobId
\* issues one status request for that jobId at once and starts an interval for it.
PollingResumesOnMount ==
  /\ [](~mounted => intervals = {})
  /\ [][/\ Unmount => intervals' = {}
        /\ (Mount /\ analysisResult.jobId # NullV)
             => /\ \E p \in polls' : /\ IssuedStatus(p)
                                     /\ p.job = analysisResult.jobId
                                     /\ p.own
                /\ \E i \in intervals' : i.job = analysisResult.jobId /\ i.h = pollRef']_vars

\* the Dashboard was left and opened again while job 1 was running: a request of the old
\* instance is still in flight, and the new instance's timer polls job 1
PollingResumesOnMountWitness ==
  /\ mounted
  /\ analysisResult.jobId = JobV(1)
  /\ backend[1] = "running"
  /\ \E p \in polls : p.job = JobV(1) /\ ~p.own
  /\ \E i \in intervals : i.job = JobV(1) /\ i.own /\ i.h = pollRef

\* C30 - fetchMatchedTrials: every call ends with loading = false; a response that is not
\* OK, or a rejected request, sets trials to the three-entry demo list; an OK response sets
\* trials to the body's trials array, or to the empty list when the body has none.
TrialsFetchOutcome ==
  [][\A o \in TrialOutcomes, data \in TrialBodies :
       fetchMatchedTrialsResumes(o, data)
       => /\ trialsPage'.loading = FALSE
          /\ o \in {"notOk", "throws"}
               => trialsPage'.trials = <<"NCT05123456", "NCT05234567", "NCT05345678">>
          /\ o = "ok"
               => trialsPage'.trials = IF data.has THEN data.trials ELSE <<>>]_vars

\* a call ended with the demo list and loading = false while an earlier call is still in
\* flight
TrialsFetchOutcomeWitness ==
  /\ ~mounted
  /\ trialsPage = [trials |-> DemoTrials, loading |-> FALSE, fetches |-> 1]

====
